---- MODULE Spec2Model ----
(***************************************************************************)
(* OffPolicyAlgorithm (stable_baselines3/common/off_policy_algorithm.py):  *)
(* the learn loop, collect_rollouts, _store_transition and the SSL refresh *)
(* cycle that rebuilds the pseudo store from the labeled and unlabeled     *)
(* stores.                                                                 *)
(*                                                                         *)
(* Conventions.  Sequences are 1-based, so the numpy index i is i+1 here.  *)
(* A probability is counted in halves (p = 2 is 1.0) and the uniform draw  *)
(* of np.random.random() is the half-open interval it falls in (u = 0 is   *)
(* [0, 0.5), u = 1 is [0.5, 1)).  A float reward is <<whole, tenths>> with *)
(* whole >= 0: <<1, 5>> is 1.5.  One buffer row is one vectorized step.    *)
(***************************************************************************)
EXTENDS Integers, Sequences, FiniteSets, TLC

\* ------------------------------------------------------------------ bounds
MaxTimesteps == 3
BufferCap == 2
MaxRolloutSteps == 3
RingCapacity == 4
RingAdds == 10

\* ------------------------------------------------------------------ state
VARIABLES
  cfg,                      \* the constructor's and learn's arguments
  env,                      \* the VecEnv: num_envs, action space, step outcomes
  pc,                       \* where learn is: loop, collect, ssl_check, refresh,
                            \* train_check, done (returned), error (raised)
  raised,                   \* the exception that ended learn, "" if none
  num_timesteps,            \* self.num_timesteps
  replay_buffer,            \* self.replay_buffer: the labeled store
  unlabeled_replay_buffer,  \* self.unlabeled_replay_buffer, or None
  ssl_replay_buffer,        \* self.ssl_replay_buffer: the pseudo store, or absent
  last_obs,                 \* self._last_obs
  rollout,                  \* collect_rollouts' locals and its RolloutReturn
  episode_num,              \* self._episode_num
  logger,                   \* the last value recorded under each key
  pred_labels,              \* the last cycle's pred_labels
  hist                      \* history of the run, read by the properties only

vars == <<cfg, env, pc, raised, num_timesteps, replay_buffer,
          unlabeled_replay_buffer, ssl_replay_buffer, last_obs, rollout,
          episode_num, logger, pred_labels, hist>>

\* ------------------------------------------------------------- experience store
\* ReplayBuffer(buffer_size, ...): the empty ring buffer.
NewBuffer(cap) ==
  [none |-> FALSE, capacity |-> cap, pos |-> 0, full |-> FALSE, data |-> <<>>]

\* self.unlabeled_replay_buffer = None
NoneBuffer ==
  [none |-> TRUE, capacity |-> 0, pos |-> 0, full |-> FALSE, data |-> <<>>]

\* ReplayBuffer.size()
Size(b) == IF b.full THEN b.capacity ELSE b.pos

\* ReplayBuffer.add: write at pos, advance, wrap and set full.
Add(b, t) ==
  LET i == b.pos + 1
      wrapped == (i = b.capacity)
  IN [b EXCEPT !.data = IF i <= Len(b.data) THEN [b.data EXCEPT ![i] = t]
                                          ELSE Append(b.data, t),
               !.pos = IF wrapped THEN 0 ELSE i,
               !.full = b.full \/ wrapped]

\* ReplayBuffer.reset()
Reset(b) == [b EXCEPT !.pos = 0, !.full = FALSE, !.data = <<>>]

\* ReplayBuffer._get_samples(np.arange(size())): the valid rows in storage order.
GetAll(b) == SubSeq(b.data, 1, Size(b))

\* BaseBuffer.extend: one add per row of the zipped arguments.
RECURSIVE Extend(_, _)
Extend(b, rows) ==
  IF rows = <<>> THEN b ELSE Extend(Add(b, Head(rows)), Tail(rows))

\* ------------------------------------------------------- refresh cycle: pure parts
\* gl.utils.labels_to_onehot(actions, 4): the number of action classes.
NumActions == 4

\* gl.utils.labels_to_onehot: a 1 at the action's position, 0 elsewhere.
OneHot(a) == [i \in 1..NumActions |-> IF i = a + 1 THEN 1 ELSE 0]

\* np.concatenate((observations, actions_1hot), axis=1), one row.
StateAction(t) == <<t.obs>> \o OneHot(t.action)

\* unlabeled_state_action / labeled_state_action
StateActions(rows) == [i \in 1..Len(rows) |-> StateAction(rows[i])]

\* replay_data.rewards.numpy()
RewardsOf(rows) == [i \in 1..Len(rows) |-> rows[i].reward]

\* np.sort(np.unique(x, axis=0, return_index=True)[1]): the indices of the first
\* occurrence of every distinct row, ascending.
RECURSIVE UniqueIndUpTo(_, _)
UniqueIndUpTo(s, n) ==
  IF n = 0 THEN <<>>
  ELSE LET r == UniqueIndUpTo(s, n - 1)
       IN IF \E j \in 1..(n - 1) : s[j] = s[n] THEN r ELSE Append(r, n)

UniqueInd(s) == UniqueIndUpTo(s, Len(s))

\* x[ind]: numpy fancy indexing.
Take(s, ind) == [k \in 1..Len(ind) |-> s[ind[k]]]

\* np.delete(x, ind)
RECURSIVE DeleteUpTo(_, _, _)
DeleteUpTo(x, ind, n) ==
  IF n = 0 THEN <<>>
  ELSE LET r == DeleteUpTo(x, ind, n - 1)
       IN IF \E k \in 1..Len(ind) : ind[k] = n THEN r ELSE Append(r, x[n])

Delete(x, ind) == DeleteUpTo(x, ind, Len(x))

\* .astype(int) on a non-negative float: truncation.
AsInt(r) == r[1]

\* rewards.astype(int), elementwise
AsIntSeq(rs) == [i \in 1..Len(rs) |-> AsInt(rs[i])]

\* unique_unlabeled_ind, unique_unlabeled_sa, unique_unlabeled_rewards
unique_unlabeled_ind(U) == UniqueInd(StateActions(U))
unique_unlabeled_sa(U) == Take(StateActions(U), unique_unlabeled_ind(U))
unique_unlabeled_rewards(U) == Take(RewardsOf(U), unique_unlabeled_ind(U))

\* unique_labeled_ind, unique_labeled_sa, unique_labeled_rewards
unique_labeled_ind(L) == UniqueInd(StateActions(L))
unique_labeled_sa(L) == Take(StateActions(L), unique_labeled_ind(L))
unique_labeled_rewards(L) == Take(RewardsOf(L), unique_labeled_ind(L))

\* X_prime = np.concatenate((unique_unlabeled_sa, unique_labeled_sa), axis=0)
X_prime(U, L) == unique_unlabeled_sa(U) \o unique_labeled_sa(L)

\* concatenated_unique_ind, X_prime_unique: the graph's nodes.
concatenated_unique_ind(U, L) == UniqueInd(X_prime(U, L))
X_prime_unique(U, L) == Take(X_prime(U, L), concatenated_unique_ind(U, L))

\* train_ind = np.arange(unique_labeled_sa.shape[0])
train_ind(L) == [i \in 1..Len(unique_labeled_sa(L)) |-> i]

\* true_rewards = np.concatenate((unique_labeled_rewards, unique_unlabeled_rewards))
\*                  .flatten()[concatenated_unique_ind].astype(int)
true_rewards(U, L) ==
  AsIntSeq(Take(unique_labeled_rewards(L) \o unique_unlabeled_rewards(U),
                concatenated_unique_ind(U, L)))

\* rewards_to_labels: the distinct integer rewards, ascending, are the classes
\* 0..k-1; l2r[label + 1] is the reward of a class.
RewardAlphabet(rs) == {rs[i] : i \in 1..Len(rs)}
LabelOf(r, rs) == Cardinality({v \in RewardAlphabet(rs) : v < r})
l2r(rs) ==
  [l \in 1..Cardinality(RewardAlphabet(rs)) |->
     CHOOSE r \in RewardAlphabet(rs) : LabelOf(r, rs) = l - 1]
train_labels(L) ==
  LET rs == AsIntSeq(unique_labeled_rewards(L))
  IN [i \in 1..Len(rs) |-> LabelOf(rs[i], rs)]

\* infer_rewards_SSL: one predicted class per node; a seeded node keeps its seed.
PredChoices(U, L) ==
  LET n == Len(X_prime_unique(U, L))
      k == Cardinality(RewardAlphabet(AsIntSeq(unique_labeled_rewards(L))))
      ti == train_ind(L)
      tl == train_labels(L)
  IN {f \in [1..n -> 0..(k - 1)] : \A j \in 1..Len(ti) : f[ti[j]] = tl[j]}

\* train_labels, _, _, l2r = rewards_to_labels(unique_labeled_rewards.astype(int)):
\* the mapping a cycle uses is the one it has just built; last is the mapping
\* the cycle before it built.
CycleMappingStale(L, last) ==
  LET fresh == l2r(AsIntSeq(unique_labeled_rewards(L)))
  IN IF last = <<>> THEN fresh
     ELSE [l \in 1..Len(fresh) |->
             IF l <= Len(last) THEN last[l] ELSE last[Len(last)]]

CycleMapping(L, last) == l2r(AsIntSeq(unique_labeled_rewards(L)))

\* pseudo_rewards = th.tensor(list(map(lambda l: l2r[l.item()], pred_labels)))
pseudo_rewards_as_labels(L, pred) == pred

pseudo_rewards(L, pred) ==
  LET m == CycleMapping(L, hist.l2r_prev)
  IN [i \in 1..Len(pred) |-> m[pred[i] + 1]]

\* The two arguments of f1_score.
f1_pseudo(L, pred) == Delete(pseudo_rewards(L, pred), train_ind(L))
f1_true(U, L) == Delete(true_rewards(U, L), train_ind(L))

\* f1_score(..., average='micro') of single-label data: <<matches, compared>>.
f1_score(a, b) ==
  <<Cardinality({i \in 1..Len(a) : a[i] = b[i]}), Len(a)>>

\* The arguments of ssl_replay_buffer.extend, zipped row by row: the unique
\* unlabeled rows with np.delete(pseudo_rewards, train_ind) beside them.
ExtendRows(U, L, pred) ==
  LET rows == Take(U, unique_unlabeled_ind(U))
      pr == Delete(pseudo_rewards(L, pred), train_ind(L))
      n == IF Len(rows) < Len(pr) THEN Len(rows) ELSE Len(pr)
  IN [i \in 1..n |->
        [obs |-> rows[i].obs, next_obs |-> rows[i].next_obs,
         action |-> rows[i].action, reward |-> rows[i].reward,
         done |-> rows[i].done, timeout |-> rows[i].timeout,
         pseudo_reward |-> pr[i]]]

\* The failures of a cycle: an empty node set (graph builder), no labeled seed
\* (inference engine).
CycleMustFail(U, L) ==
  \/ Len(X_prime_unique(U, L)) = 0
  \/ Len(train_ind(L)) = 0

\* ------------------------------------------------------------- configurations
\* The values of p and of the draw u, in halves.
PValues == {0, 1, 2}
UValues == {0, 1}

\* Values of p the constructor takes as they come: -0.5 and 1.5.
InvalidPValues == {-1, 3}

\* Environments: one action and two step outcomes; two actions and three outcomes.
Outcome(o, r, d, t, ht, to) ==
  [obs |-> o, reward |-> r, done |-> d, timeout |-> t,
   has_terminal |-> ht, terminal_observation |-> to]

PlainOutcomes ==
  {Outcome(0, <<0, 0>>, FALSE, FALSE, FALSE, 0),
   Outcome(0, <<1, 0>>, TRUE, FALSE, TRUE, 1)}

RichOutcomes ==
  {Outcome(0, <<0, 0>>, FALSE, FALSE, FALSE, 0),
   Outcome(1, <<1, 0>>, FALSE, FALSE, FALSE, 0),
   Outcome(0, <<1, 5>>, TRUE, TRUE, TRUE, 1)}

\* __init__ and _setup_model: the stores of a fresh model.
InitStores ==
  /\ replay_buffer = NewBuffer(cfg.buffer_size)
  /\ unlabeled_replay_buffer =
       IF cfg.pseudo_mode THEN NewBuffer(cfg.unlabeled_buffer_size) ELSE NoneBuffer
  /\ ssl_replay_buffer =
       IF cfg.pseudo_mode THEN NewBuffer(cfg.ssl_buffer_size) ELSE NoneBuffer

InitRest ==
  /\ pc = "setup"
  /\ raised = ""
  /\ num_timesteps = 0
  /\ last_obs = 0
  /\ rollout = [num_collected_steps |-> 0, num_collected_episodes |-> 0,
                continue_training |-> TRUE]
  /\ episode_num = 0
  /\ logger = [num_labeled_rewards |-> -1, num_unlabeled_rewards |-> -1,
               f1_score |-> <<-1, -1>>, num_ssl_rewards |-> -1,
               available_rewards |-> -1]
  /\ pred_labels = <<>>
  /\ hist = [phases |-> <<>>, env_steps |-> 0, stored |-> 0, trains |-> 0,
             train_at |-> 0, train_size |-> 0, train_steps |-> 0,
             ssl_at |-> {}, checked_at |-> {}, ssl_before |-> NoneBuffer,
             cycles_ok |-> 0, labeled_log |-> <<>>, recorded |-> <<>>,
             cycle_recorded |-> <<>>, l2r_used |-> <<>>, l2r_prev |-> <<>>,
             train_args |-> <<>>, labeled_before |-> NoneBuffer,
             unlabeled_before |-> NoneBuffer, steps_before |-> 0,
             cb |-> [on_training_start |-> 0, on_training_end |-> 0,
                     on_rollout_start |-> 0, on_rollout_end |-> 0],
             loaded |-> <<>>,
             warmup_steps |-> 0, warmup_predicts |-> 0, late_samples |-> 0]

\* Every configuration of the loop, over the plain environment.
Init ==
  /\ cfg \in [p : PValues \cup InvalidPValues, pseudo_mode : BOOLEAN,
              ssl_freq : {0, 1, 3}, learning_starts : {0, 2},
              train_freq : [frequency : {0, 1, 2}, unit : {"step", "episode"}],
              gradient_steps : {-1, 0, 1}, log_interval : {2},
              total_timesteps : {MaxTimesteps},
              buffer_size : {BufferCap}, unlabeled_buffer_size : {BufferCap},
              ssl_buffer_size : {BufferCap},
              use_sde : {FALSE}, use_sde_at_warmup : {FALSE},
              optimize_memory_usage : {FALSE},
              batch_size : {256}, ssl_batch_size : {512}]
  /\ env \in [num_envs : {1, 2}, actions : {{0}}, outcomes : {PlainOutcomes}]
  /\ InitStores
  /\ InitRest

\* p = 0.5 and a refresh that is due after every step past the first, or after
\* the third only, over the rich environment.
InitData ==
  /\ cfg \in [p : {1}, pseudo_mode : BOOLEAN, ssl_freq : {0, 1, 3},
              learning_starts : {2},
              train_freq : [frequency : {1}, unit : {"step"}],
              gradient_steps : {1}, log_interval : {2},
              total_timesteps : {MaxTimesteps},
              buffer_size : {BufferCap}, unlabeled_buffer_size : {BufferCap},
              ssl_buffer_size : {BufferCap},
              use_sde : {FALSE}, use_sde_at_warmup : {FALSE},
              optimize_memory_usage : {FALSE},
              batch_size : {256}, ssl_batch_size : {512}]
  /\ env \in [num_envs : {1}, actions : {{0, 1}}, outcomes : {RichOutcomes}]
  /\ InitStores
  /\ InitRest

\* Every transition labeled (p = 1.0), one environment, a labeled store of
\* RingCapacity rows and a budget of RingAdds steps; gSDE on or off.
InitRing ==
  /\ cfg \in [p : {2}, pseudo_mode : {TRUE}, ssl_freq : {0, 4},
              learning_starts : {3},
              train_freq : [frequency : {1}, unit : {"step"}],
              gradient_steps : {1}, log_interval : {2},
              total_timesteps : {RingAdds},
              buffer_size : {RingCapacity}, unlabeled_buffer_size : {BufferCap},
              ssl_buffer_size : {BufferCap},
              use_sde : BOOLEAN, use_sde_at_warmup : BOOLEAN,
              optimize_memory_usage : BOOLEAN,
              batch_size : {256}, ssl_batch_size : {512}]
  /\ env \in [num_envs : {1}, actions : {{0}}, outcomes : {PlainOutcomes}]
  /\ InitStores
  /\ InitRest

\* ------------------------------------------------- load_replay_buffer, learn
\* load_from_pkl(path): the replay buffer a file holds, saved by a model of the
\* same configuration after one step of a running episode.
SavedBuffers ==
  {Add(NewBuffer(cfg.buffer_size),
       [obs |-> 0, next_obs |-> 0, action |-> 0, reward |-> <<0, 0>>,
        done |-> FALSE, timeout |-> FALSE, n_envs |-> env.num_envs])}

\* _setup_learn: truncate_last_traj
truncate_last_traj(reset_num_timesteps) ==
  /\ cfg.optimize_memory_usage
  /\ reset_num_timesteps
  /\ ~replay_buffer.none
  /\ (replay_buffer.full \/ replay_buffer.pos > 0)

\* pos = (replay_buffer.pos - 1) % replay_buffer.buffer_size
\* replay_buffer.dones[pos] = True
TruncateLast(b) ==
  LET pos == (b.pos - 1 + b.capacity) % b.capacity
  IN [b EXCEPT !.data[pos + 1].done = TRUE]

\* while self.num_timesteps < total_timesteps
LoopCondition == num_timesteps < cfg.total_timesteps

\* The asserts at the head of collect_rollouts.
RolloutAsserts ==
  /\ cfg.train_freq.frequency > 0
  /\ env.num_envs > 1 => cfg.train_freq.unit = "step"

\* The order of the statements of the loop body: where control goes after the
\* rollout has returned, after the SSL block, after the train block.
NextPhaseTrainFirst(ph) ==
  CASE ph = "collect" -> "train_check"
    [] ph = "train" -> "ssl_check"
    [] ph = "ssl" -> "loop"

NextPhase(ph) ==
  CASE ph = "collect" -> "ssl_check"
    [] ph = "ssl" -> "train_check"
    [] ph = "train" -> "loop"

\* should_collect_more_steps(train_freq, num_collected_steps, num_collected_episodes)
should_collect_more_steps ==
  IF cfg.train_freq.unit = "step"
  THEN rollout.num_collected_steps < cfg.train_freq.frequency
  ELSE rollout.num_collected_episodes < cfg.train_freq.frequency

\* _store_transition: which store the draw u sends the transition to.
StoreLabeledBelow(u) == u + 1 < cfg.p

StoreLabeledAtMost(u) == u <= cfg.p

StoreLabeled(u) == u < cfg.p

StoreUnlabeledIf(u) == ~unlabeled_replay_buffer.none

StoreUnlabeled(u) == ~(u < cfg.p) /\ ~unlabeled_replay_buffer.none

\* _store_transition: the row added, the batch of the n_envs transitions of one
\* vectorized step; next_obs is the terminal observation when the episode ended.
Transition(a, o) ==
  [obs |-> last_obs,
   next_obs |-> IF o.done /\ o.has_terminal THEN o.terminal_observation ELSE o.obs,
   action |-> a, reward |-> o.reward, done |-> o.done, timeout |-> o.timeout,
   n_envs |-> env.num_envs]

\* _sample_action: the warm-up branch, action_space.sample(); otherwise predict.
WarmupPhaseNoSde == num_timesteps < cfg.learning_starts

WarmupPhase ==
  /\ num_timesteps < cfg.learning_starts
  /\ ~(cfg.use_sde /\ cfg.use_sde_at_warmup)

\* The callback counters after the callbacks named in names have been called.
RECURSIVE Called(_, _)
Called(cb, names) ==
  IF names = <<>> THEN cb
  ELSE Called([cb EXCEPT ![Head(names)] = @ + 1], Tail(names))

\* The callbacks called after on_step has returned False: collect_rollouts
\* returns before on_rollout_end, learn breaks and calls on_training_end.
OnStopWithRolloutEnd == <<"on_rollout_end", "on_training_end">>

OnStop == <<"on_training_end">>

\* collect_rollouts and learn: where control goes when on_step returns False:
\* the rollout returns continue_training = False and learn breaks out of its loop.
AfterStopGoesOn == NextPhase("collect")

AfterStop == "done"

\* if self.pseudo_mode and self.p < 1: record buffer/num_unlabeled_rewards
RecordsUnlabeledNever == FALSE

RecordsUnlabeled == cfg.pseudo_mode /\ cfg.p < 2

\* The keys recorded after _store_transition, and by the dumps calls of
\* _dump_logs that ran to their end in the loop over dones.
StepRecords(dumps) ==
  <<"buffer/num_labeled_rewards">>
  \o (IF RecordsUnlabeled THEN <<"buffer/num_unlabeled_rewards">> ELSE <<>>)
  \o [i \in 1..dumps |-> "buffer/available_rewards"]

\* The keys recorded by a refresh cycle, in the order of the calls.
CycleRecords == <<"ssl/f1_score", "buffer/num_ssl_rewards">>

\* Line 399 with ssl_freq = 0: the modulo raises ZeroDivisionError.
SslConditionRaises == cfg.pseudo_mode /\ cfg.ssl_freq = 0

\* if self.pseudo_mode and self.num_timesteps % self.ssl_freq == 0
\*    and self.num_timesteps > self.learning_starts // 2
SslConditionPseudoOnly == cfg.pseudo_mode

SslConditionNoWarmup ==
  /\ cfg.pseudo_mode
  /\ num_timesteps % cfg.ssl_freq = 0

SslCondition ==
  /\ cfg.pseudo_mode
  /\ num_timesteps % cfg.ssl_freq = 0
  /\ num_timesteps > cfg.learning_starts \div 2

\* if self.num_timesteps > 0 and self.num_timesteps > self.learning_starts
TrainConditionAtStart ==
  /\ num_timesteps > 0
  /\ num_timesteps >= cfg.learning_starts

TrainCondition ==
  /\ num_timesteps > 0
  /\ num_timesteps > cfg.learning_starts

\* gradient_steps = self.gradient_steps if self.gradient_steps >= 0
\*                  else rollout.episode_timesteps
GradientStepsPerEnv ==
  IF cfg.gradient_steps >= 0 THEN cfg.gradient_steps
  ELSE rollout.num_collected_steps

GradientSteps ==
  IF cfg.gradient_steps >= 0 THEN cfg.gradient_steps
  ELSE rollout.num_collected_steps * env.num_envs

\* self.train(batch_size=..., ssl_batch_size=..., gradient_steps=gradient_steps)
TrainArgs ==
  [batch_size |-> cfg.batch_size, ssl_batch_size |-> cfg.ssl_batch_size,
   gradient_steps |-> GradientSteps]

\* The pseudo store when a step of the cycle raises: every step that can raise
\* runs after the reset and before the extend.
SslOnFailurePartial(b, U) ==
  IF U = <<>> THEN b
  ELSE Add(b, [obs |-> U[1].obs, next_obs |-> U[1].next_obs,
               action |-> U[1].action, reward |-> U[1].reward,
               done |-> U[1].done, timeout |-> U[1].timeout,
               pseudo_reward |-> 0])

SslOnFailure(b, U) == b

\* The exception a failing cycle raises.
CycleError(U, L, unstable) ==
  IF Len(X_prime_unique(U, L)) = 0 THEN "InsufficientDataError"
  ELSE IF Len(train_ind(L)) = 0 THEN "NoLabeledSeedError"
  ELSE "NumericalInstabilityError"

Stores == <<replay_buffer, unlabeled_replay_buffer, ssl_replay_buffer>>
Config == <<cfg, env>>

\* load_replay_buffer, called before learn: the labeled store is replaced by
\* the one the file holds.
LoadReplayBuffer(b) ==
  /\ pc = "setup"
  /\ replay_buffer' = b
  /\ hist' = [hist EXCEPT !.loaded = GetAll(b), !.labeled_log = GetAll(b)]
  /\ UNCHANGED <<Config, pc, raised, num_timesteps, unlabeled_replay_buffer,
                 ssl_replay_buffer, last_obs, rollout, episode_num, logger,
                 pred_labels>>

\* learn, up to the loop: _setup_learn truncates the last trajectory of a
\* non-empty labeled store, then on_training_start is called.
SetupLearn(reset_num_timesteps) ==
  /\ pc = "setup"
  /\ pc' = "loop"
  /\ replay_buffer' = IF truncate_last_traj(reset_num_timesteps)
                      THEN TruncateLast(replay_buffer)
                      ELSE replay_buffer
  /\ hist' = [hist EXCEPT !.loaded = GetAll(replay_buffer'),
                          !.labeled_log = GetAll(replay_buffer'),
                          !.cb = Called(@, <<"on_training_start">>)]
  /\ UNCHANGED <<Config, raised, num_timesteps, unlabeled_replay_buffer,
                 ssl_replay_buffer, last_obs, rollout, episode_num, logger,
                 pred_labels>>

\* learn, line 378 on: the loop goes on and collect_rollouts is entered.
EnterRollout ==
  /\ pc = "loop"
  /\ LoopCondition
  /\ IF RolloutAsserts
     THEN /\ pc' = "collect"
          /\ raised' = raised
     ELSE /\ pc' = "error"
          /\ raised' = "AssertionError"
  /\ rollout' = [num_collected_steps |-> 0, num_collected_episodes |-> 0,
                 continue_training |-> TRUE]
  /\ hist' = [hist EXCEPT
                !.phases = <<>>,
                !.cb = IF RolloutAsserts THEN Called(@, <<"on_rollout_start">>)
                       ELSE @]
  /\ UNCHANGED <<Config, Stores, num_timesteps, last_obs, episode_num, logger,
                 pred_labels>>

\* learn: the loop condition fails; on_training_end, return self.
ExitLoop ==
  /\ pc = "loop"
  /\ ~LoopCondition
  /\ pc' = "done"
  /\ hist' = [hist EXCEPT !.cb = Called(@, <<"on_training_end">>)]
  /\ UNCHANGED <<Config, Stores, raised, num_timesteps, last_obs, rollout,
                 episode_num, logger, pred_labels>>

\* _sample_action, as the history sees it: a call of predict during the warm-up
\* steps, a call of action_space.sample() after them.
SampleAction ==
  [hist EXCEPT
     !.warmup_steps = IF num_timesteps < cfg.learning_starts THEN @ + 1 ELSE @,
     !.warmup_predicts =
        IF num_timesteps < cfg.learning_starts /\ ~WarmupPhase THEN @ + 1 ELSE @,
     !.late_samples =
        IF ~(num_timesteps < cfg.learning_starts) /\ WarmupPhase THEN @ + 1 ELSE @]

\* self.num_timesteps += env.num_envs
StepIncrementDoubled == env.num_envs + env.num_envs

StepIncrement == env.num_envs

\* for idx, done in enumerate(dones): the passes that find done set; the step's
\* outcome o is the outcome of every environment.
EpisodesEnded(o) == IF o.done THEN env.num_envs ELSE 0

\* The passes over dones at which self._episode_num % log_interval == 0.
DumpPasses(o) ==
  {i \in 1..EpisodesEnded(o) : (episode_num + i) % cfg.log_interval = 0}

\* The passes over dones that run: all of them, or those up to the first pass
\* whose _dump_logs reads self.ssl_replay_buffer where there is none.
EpisodesCounted(o) ==
  IF DumpPasses(o) # {} /\ ssl_replay_buffer.none
  THEN CHOOSE i \in DumpPasses(o) : \A j \in DumpPasses(o) : i <= j
  ELSE EpisodesEnded(o)

\* collect_rollouts: one pass of its while loop, with the action a, the
\* environment's answer o, the routing draw u and the hook's answer cont.
CollectStep(a, o, u, cont) ==
  /\ pc = "collect"
  /\ should_collect_more_steps
  /\ rollout.num_collected_steps < MaxRolloutSteps
  /\ num_timesteps' = num_timesteps + StepIncrement
  /\ IF ~cont
     THEN /\ rollout' = [rollout EXCEPT
                           !.num_collected_steps = @ + 1,
                           !.continue_training = FALSE]
          /\ pc' = AfterStop
          /\ hist' = [SampleAction EXCEPT !.env_steps = @ + 1,
                                          !.recorded = <<>>,
                                          !.cb = Called(@, OnStop)]
          /\ UNCHANGED <<Stores, raised, last_obs, episode_num, logger>>
     ELSE LET t == Transition(a, o)
              lab == IF StoreLabeled(u) THEN Add(replay_buffer, t)
                     ELSE replay_buffer
              unl == IF StoreUnlabeled(u) THEN Add(unlabeled_replay_buffer, t)
                     ELSE unlabeled_replay_buffer
              eps == episode_num + EpisodesCounted(o)
              dump == DumpPasses(o) # {}
              log1 == [logger EXCEPT
                         !.num_labeled_rewards = Size(lab),
                         !.num_unlabeled_rewards =
                            IF RecordsUnlabeled THEN Size(unl) ELSE @]
          IN /\ replay_buffer' = lab
             /\ unlabeled_replay_buffer' = unl
             /\ ssl_replay_buffer' = ssl_replay_buffer
             /\ last_obs' = o.obs
             /\ episode_num' = eps
             /\ rollout' = [rollout EXCEPT
                              !.num_collected_steps = @ + 1,
                              !.num_collected_episodes =
                                 @ + EpisodesCounted(o)]
             /\ hist' = [SampleAction EXCEPT
                           !.env_steps = @ + 1,
                           !.stored = @ + 1,
                           !.labeled_log =
                              IF StoreLabeled(u) THEN Append(@, t) ELSE @,
                           !.recorded =
                              StepRecords(IF ssl_replay_buffer.none THEN 0
                                          ELSE Cardinality(DumpPasses(o)))]
             /\ IF dump /\ ssl_replay_buffer.none
                THEN /\ pc' = "error"
                     /\ raised' = "AttributeError"
                     /\ logger' = log1
                ELSE /\ pc' = pc
                     /\ raised' = raised
                     /\ logger' =
                          IF dump
                          THEN [log1 EXCEPT !.available_rewards =
                                  Size(ssl_replay_buffer) + Size(lab)]
                          ELSE log1
  /\ UNCHANGED <<Config, pred_labels>>

\* collect_rollouts: the while loop ends; on_rollout_end, return; learn goes on
\* past `if not rollout.continue_training`.
RolloutReturn ==
  /\ pc = "collect"
  /\ ~should_collect_more_steps
  /\ pc' = NextPhase("collect")
  /\ hist' = [hist EXCEPT !.phases = Append(@, "collect"),
                          !.checked_at = @ \cup {num_timesteps},
                          !.cb = Called(@, <<"on_rollout_end">>)]
  /\ UNCHANGED <<Config, Stores, raised, num_timesteps, last_obs, rollout,
                 episode_num, logger, pred_labels>>

\* self.ssl_replay_buffer.reset(): the three stores after line 402.
AfterResetAll ==
  <<Reset(replay_buffer), Reset(unlabeled_replay_buffer), Reset(ssl_replay_buffer)>>

AfterReset ==
  <<replay_buffer, unlabeled_replay_buffer, Reset(ssl_replay_buffer)>>

\* learn, lines 399-402: the cycle is due; the pseudo store is reset.
RefreshStart ==
  /\ pc = "ssl_check"
  /\ ~SslConditionRaises
  /\ SslCondition
  /\ replay_buffer' = AfterReset[1]
  /\ unlabeled_replay_buffer' = AfterReset[2]
  /\ ssl_replay_buffer' = AfterReset[3]
  /\ pc' = "refresh"
  /\ hist' = [hist EXCEPT !.phases = Append(@, "reset"),
                          !.ssl_at = @ \cup {num_timesteps},
                          !.ssl_before = ssl_replay_buffer,
                          !.l2r_prev = hist.l2r_used,
                          !.labeled_before = replay_buffer,
                          !.unlabeled_before = unlabeled_replay_buffer,
                          !.steps_before = num_timesteps]
  /\ UNCHANGED <<Config, raised, num_timesteps, last_obs, rollout, episode_num,
                 logger, pred_labels>>

\* learn, line 399: the cycle is not due.
RefreshSkip ==
  /\ pc = "ssl_check"
  /\ ~SslConditionRaises
  /\ ~SslCondition
  /\ pc' = NextPhase("ssl")
  /\ UNCHANGED <<Config, Stores, raised, num_timesteps, last_obs, rollout,
                 episode_num, logger, pred_labels, hist>>

\* learn, line 399: ssl_freq = 0 in pseudo mode; the condition raises.
SslCheckRaise ==
  /\ pc = "ssl_check"
  /\ SslConditionRaises
  /\ pc' = "error"
  /\ raised' = "ZeroDivisionError"
  /\ UNCHANGED <<Config, Stores, num_timesteps, last_obs, rollout, episode_num,
                 logger, pred_labels, hist>>

\* learn, lines 405-514: the cycle runs to its end with the inference result pred.
RefreshOk(pred) ==
  LET U == GetAll(unlabeled_replay_buffer)
      L == GetAll(replay_buffer)
      ssl == Extend(ssl_replay_buffer, ExtendRows(U, L, pred))
  IN /\ pc = "refresh"
     /\ ~CycleMustFail(U, L)
     /\ pred \in PredChoices(U, L)
     /\ pred_labels' = pred
     /\ ssl_replay_buffer' = ssl
     /\ logger' = [logger EXCEPT
                     !.f1_score = f1_score(f1_pseudo(L, pred), f1_true(U, L)),
                     !.num_ssl_rewards = Size(ssl)]
     /\ pc' = NextPhase("ssl")
     /\ hist' = [hist EXCEPT !.phases = Append(@, "refresh"),
                             !.cycles_ok = @ + 1,
                             !.cycle_recorded = CycleRecords,
                             !.l2r_used = CycleMapping(L, hist.l2r_prev)]
     /\ UNCHANGED <<Config, replay_buffer, unlabeled_replay_buffer, raised,
                    num_timesteps, last_obs, rollout, episode_num>>

\* learn, lines 405-487: graph construction or inference raises; nothing in
\* learn catches it.
RefreshFail(unstable) ==
  LET U == GetAll(unlabeled_replay_buffer)
      L == GetAll(replay_buffer)
  IN /\ pc = "refresh"
     /\ unstable \/ CycleMustFail(U, L)
     /\ ssl_replay_buffer' = SslOnFailure(ssl_replay_buffer, U)
     /\ pc' = "error"
     /\ raised' = CycleError(U, L, unstable)
     /\ UNCHANGED <<Config, replay_buffer, unlabeled_replay_buffer,
                    num_timesteps, last_obs, rollout, episode_num, logger,
                    pred_labels, hist>>

\* learn, lines 518-525: train is called.
Train ==
  /\ pc = "train_check"
  /\ TrainCondition
  /\ GradientSteps > 0
  /\ pc' = NextPhase("train")
  /\ hist' = [hist EXCEPT !.phases = Append(@, "train"),
                          !.trains = @ + 1,
                          !.train_at = num_timesteps,
                          !.train_size = Size(replay_buffer),
                          !.train_steps = GradientSteps,
                          !.train_args = TrainArgs]
  /\ UNCHANGED <<Config, Stores, raised, num_timesteps, last_obs, rollout,
                 episode_num, logger, pred_labels>>

\* learn, lines 518-525: train is not called.
TrainSkip ==
  /\ pc = "train_check"
  /\ ~(TrainCondition /\ GradientSteps > 0)
  /\ pc' = NextPhase("train")
  /\ UNCHANGED <<Config, Stores, raised, num_timesteps, last_obs, rollout,
                 episode_num, logger, pred_labels, hist>>

Next ==
  \/ \E b \in SavedBuffers : LoadReplayBuffer(b)
  \/ \E reset_num_timesteps \in BOOLEAN : SetupLearn(reset_num_timesteps)
  \/ EnterRollout
  \/ ExitLoop
  \/ \E a \in env.actions, o \in env.outcomes, u \in UValues, cont \in BOOLEAN :
       CollectStep(a, o, u, cont)
  \/ RolloutReturn
  \/ RefreshStart
  \/ RefreshSkip
  \/ SslCheckRaise
  \/ \E pred \in PredChoices(GetAll(unlabeled_replay_buffer), GetAll(replay_buffer)) :
       RefreshOk(pred)
  \/ \E unstable \in BOOLEAN : RefreshFail(unstable)
  \/ Train
  \/ TrainSkip

Spec == Init /\ [][Next]_vars

SpecData == InitData /\ [][Next]_vars

SpecRing == InitRing /\ [][Next]_vars

\* ------------------------------------------------------------------ properties
\* A refresh cycle has just run to its end: the stores are as the cycle read them.
JustRefreshed ==
  /\ pc = "train_check"
  /\ hist.phases = <<"collect", "reset", "refresh">>

CycleErrors ==
  {"InsufficientDataError", "NoLabeledSeedError", "NumericalInstabilityError"}

\* C1: in every iteration the phases come in the order collect, reset and
\* refresh of the pseudo store (when the cycle is due), train (when it is due):
\* a train call of an iteration where the cycle was due comes after the cycle has
\* written the pseudo store, and a cycle starts only after the rollout returned.
C1_PhaseOrder ==
  /\ hist.phases \in
       {<<>>, <<"collect">>, <<"collect", "reset">>,
        <<"collect", "reset", "refresh">>, <<"collect", "train">>,
        <<"collect", "reset", "refresh", "train">>}
  /\ hist.phases = <<"collect", "train">> =>
       ~(/\ cfg.pseudo_mode
         /\ cfg.ssl_freq # 0
         /\ num_timesteps % cfg.ssl_freq = 0
         /\ num_timesteps > cfg.learning_starts \div 2)
  /\ pc = "refresh" => hist.phases = <<"collect", "reset">>
  /\ pc = "collect" => hist.phases = <<>>

C1_Witness ==
  /\ hist.phases = <<"collect", "reset", "refresh", "train">>
  /\ hist.cycles_ok > 1

\* C2: every call of _store_transition adds the transition to the labeled store,
\* or to the unlabeled store, or to neither, and to neither only when there is
\* no unlabeled store; never to both.
C2_ExactlyOneStore ==
  [][hist'.stored = hist.stored + 1 =>
       LET lab == replay_buffer' # replay_buffer
           unl == unlabeled_replay_buffer' # unlabeled_replay_buffer
       IN /\ ~(lab /\ unl)
          /\ (~lab /\ ~unl) => unlabeled_replay_buffer.none
          /\ lab => /\ Size(replay_buffer') >= Size(replay_buffer)
                    /\ replay_buffer'.data[replay_buffer.pos + 1].obs = last_obs
          /\ unl => /\ Size(unlabeled_replay_buffer') >= Size(unlabeled_replay_buffer)
                    /\ unlabeled_replay_buffer'.data[unlabeled_replay_buffer.pos + 1].obs
                         = last_obs
          /\ ssl_replay_buffer' = ssl_replay_buffer]_vars

C2_Witness ==
  /\ hist.stored = 3
  /\ Size(replay_buffer) = 1
  /\ Size(unlabeled_replay_buffer) = 2

\* C3: after a cycle that ran to its end, every entry of the pseudo store has the
\* observation, next observation, action, done and timeout of one unique
\* unlabeled transition, and its pseudo-reward is the inverse-mapped prediction
\* of the node built from that transition's state-action vector.
C3_SubstitutionLaw ==
  JustRefreshed =>
    LET U == GetAll(unlabeled_replay_buffer)
        L == GetAll(replay_buffer)
        P == GetAll(ssl_replay_buffer)
        uu == Take(U, unique_unlabeled_ind(U))
        nodes == X_prime_unique(U, L)
        pr == pseudo_rewards(L, pred_labels)
    IN \A i \in 1..Len(P) :
         \E j \in 1..Len(uu) :
           /\ P[i].obs = uu[j].obs
           /\ P[i].next_obs = uu[j].next_obs
           /\ P[i].action = uu[j].action
           /\ P[i].done = uu[j].done
           /\ P[i].timeout = uu[j].timeout
           /\ \A n \in 1..Len(nodes) :
                nodes[n] = StateAction(uu[j]) => P[i].pseudo_reward = pr[n]

\* C4: after a cycle that ran to its end the pseudo store holds one entry per
\* unique unlabeled state-action pair of the snapshot and nothing else, and as
\* many pseudo-rewards were handed to it as there are unique unlabeled
\* transitions.
C4_OneEntryPerUnique ==
  JustRefreshed =>
    LET U == GetAll(unlabeled_replay_buffer)
        L == GetAll(replay_buffer)
        P == GetAll(ssl_replay_buffer)
        uu == Take(U, unique_unlabeled_ind(U))
    IN /\ Len(Delete(pseudo_rewards(L, pred_labels), train_ind(L))) = Len(uu)
       /\ Len(P) = Len(uu)
       /\ \A i \in 1..Len(P) : StateAction(P[i]) = StateAction(uu[i])

\* C5: the evaluation metric of a cycle compares, for exactly the nodes that come
\* from unlabeled transitions, the pseudo-reward of the node with the true reward
\* of the transition that produced the node.
C5_MetricOverUnlabeledNodes ==
  JustRefreshed =>
    LET U == GetAll(unlabeled_replay_buffer)
        L == GetAll(replay_buffer)
        nU == Len(unique_unlabeled_ind(U))
        ci == concatenated_unique_ind(U, L)
        ti == train_ind(L)
        compared == {n \in 1..Len(ci) : \A k \in 1..Len(ti) : ti[k] # n}
        producer(n) == IF ci[n] <= nU
                       THEN unique_unlabeled_rewards(U)[ci[n]]
                       ELSE unique_labeled_rewards(L)[ci[n] - nU]
    IN /\ compared = {n \in 1..Len(ci) : ci[n] <= nU}
       /\ \A n \in compared : true_rewards(U, L)[n] = AsInt(producer(n))
       /\ logger.f1_score[2] = nU

\* C6: a failing step of a refresh cycle does not end learn with an error.
C6_FailureContained == ~(pc = "error" /\ raised \in CycleErrors)

\* C7: a cycle that fails leaves the pseudo store as it was before the cycle or
\* empty.
C7_FailedCycleAtomic ==
  (pc = "error" /\ raised \in CycleErrors) =>
     \/ ssl_replay_buffer = hist.ssl_before
     \/ Size(ssl_replay_buffer) = 0

C7_Witness ==
  /\ pc = "error"
  /\ raised \in CycleErrors
  /\ Size(hist.ssl_before) > 0
  /\ Size(unlabeled_replay_buffer) > 0

\* C8, as stated: train is called only while the labeled store holds more than
\* learning_starts transitions.
C8_TrainAfterLabeledWarmup ==
  hist.trains > 0 => hist.train_size > cfg.learning_starts

\* C8, amended: train is called only when num_timesteps has passed
\* learning_starts; when every transition is labeled and there is one
\* environment, the labeled store then holds the rows it was loaded with and
\* the num_timesteps rows added since, up to buffer_size.
C8_TrainAfterStepWarmup ==
  hist.trains > 0 =>
    /\ hist.train_at > cfg.learning_starts
    /\ hist.train_at > 0
    /\ (cfg.p = 2 /\ env.num_envs = 1) =>
         hist.train_size =
           IF Len(hist.loaded) + hist.train_at < cfg.buffer_size
           THEN Len(hist.loaded) + hist.train_at ELSE cfg.buffer_size

C8_Witness ==
  /\ hist.trains > 0
  /\ cfg.learning_starts > 0
  /\ hist.train_size <= cfg.learning_starts

\* C9, as stated: when an iteration is over, for every multiple of ssl_freq above
\* learning_starts // 2 that num_timesteps has passed, a cycle was entered at
\* the first check at or after it.
C9_CycleEverySslFreq ==
  (pc = "loop" /\ cfg.pseudo_mode) =>
    \A m \in 1..num_timesteps :
      (m % cfg.ssl_freq = 0 /\ m > cfg.learning_starts \div 2) =>
        \E n \in hist.ssl_at :
          /\ n >= m
          /\ \A c \in hist.checked_at : ~(m <= c /\ c < n)

\* C9, amended: cycles are entered at exactly the checks after a rollout where
\* num_timesteps is a multiple of ssl_freq above learning_starts // 2, and in
\* pseudo mode only.
C9_CycleAtDueChecks ==
  pc # "ssl_check" =>
    hist.ssl_at =
      {n \in hist.checked_at :
         /\ cfg.pseudo_mode
         /\ cfg.ssl_freq # 0
         /\ n % cfg.ssl_freq = 0
         /\ n > cfg.learning_starts \div 2}

C9_Witness ==
  /\ cfg.pseudo_mode
  /\ pc = "train_check"
  /\ \E m \in 1..num_timesteps :
       /\ m % cfg.ssl_freq = 0
       /\ m > cfg.learning_starts \div 2
       /\ m \notin hist.checked_at
       /\ num_timesteps - m < cfg.ssl_freq
       /\ num_timesteps \notin hist.ssl_at

\* C10: with a step-unit train_freq of frequency >= 1, learn is over only in a
\* state where num_timesteps >= total_timesteps or the last rollout returned
\* continue_training = false.
C10_LeavesLoopWhenDone ==
  (/\ pc \in {"done", "error"}
   /\ cfg.train_freq.unit = "step"
   /\ cfg.train_freq.frequency >= 1) =>
     \/ num_timesteps >= cfg.total_timesteps
     \/ ~rollout.continue_training

\* C11: once the step-level hook has signalled stop, the rollout has returned
\* continue_training = false and learn is over: no environment step, no refresh
\* cycle and no train call follows, and the stores are left as they were.  The
\* signal is raised by a collection step only, never while a cycle is running.
C11_StopEndsLearn ==
  /\ [](~rollout.continue_training => pc = "done")
  /\ [](pc \in {"ssl_check", "refresh", "train_check"} => rollout.continue_training)
  /\ [][~rollout.continue_training =>
          /\ hist'.env_steps = hist.env_steps
          /\ hist'.trains = hist.trains
          /\ hist'.phases = hist.phases
          /\ num_timesteps' = num_timesteps
          /\ Stores' = Stores]_vars
  /\ [][(rollout.continue_training /\ ~rollout'.continue_training) =>
          /\ pc = "collect"
          /\ hist'.env_steps = hist.env_steps + 1
          /\ Stores' = Stores]_vars

C11_Witness ==
  /\ ~rollout.continue_training
  /\ num_timesteps < cfg.total_timesteps
  /\ hist.cycles_ok > 0
  /\ hist.trains > 0
  /\ cfg.ssl_freq = 1
  /\ num_timesteps > cfg.learning_starts

\* C12: every environment step that was taken has had its transition handed to
\* _store_transition, and num_timesteps counts the steps of every environment.
C12_EveryStepRouted ==
  /\ hist.stored = hist.env_steps
  /\ num_timesteps = hist.env_steps * env.num_envs

\* C13: what a cycle writes into the pseudo store does not depend on the true
\* rewards of the unlabeled transitions: with any other rewards in the unlabeled
\* store, the same inference result gives the same pseudo store.
C13_TrueRewardNotInPseudoStore ==
  JustRefreshed =>
    LET U == GetAll(unlabeled_replay_buffer)
        L == GetAll(replay_buffer)
        rewards == {o.reward : o \in env.outcomes}
        variants == {[i \in 1..Len(U) |-> [U[i] EXCEPT !.reward = rs[i]]] :
                       rs \in [1..Len(U) -> rewards]}
    IN \A V \in variants :
         /\ pred_labels \in PredChoices(V, L)
         /\ Extend(Reset(ssl_replay_buffer), ExtendRows(V, L, pred_labels))
              = ssl_replay_buffer

\* C14: a cycle that ran while the unlabeled store was empty has ended with an
\* insufficient-data error and an empty pseudo store.
C14_EmptyUnlabeledCycleFails ==
  (/\ cfg.pseudo_mode
   /\ Size(unlabeled_replay_buffer) = 0
   /\ (JustRefreshed \/ (pc = "error" /\ raised \in CycleErrors))) =>
     /\ pc = "error"
     /\ raised = "InsufficientDataError"
     /\ Size(ssl_replay_buffer) = 0

\* C15: with an invalid configuration (ssl_freq <= 0, train_freq <= 0, p outside
\* [0, 1]) no environment step is ever taken.
C15_InvalidConfigRejected ==
  (\/ cfg.ssl_freq <= 0
   \/ cfg.train_freq.frequency <= 0
   \/ cfg.p < 0
   \/ cfg.p > 2) => hist.env_steps = 0

\* C16, as stated: the last collection step has recorded the size of the labeled,
\* of the unlabeled and of the pseudo store, and the last cycle has recorded the
\* metric and then the size of the pseudo store.
C16_AllStoreSizesEachStep ==
  /\ hist.env_steps > 0 =>
       \A k \in {"buffer/num_labeled_rewards", "buffer/num_unlabeled_rewards",
                 "buffer/num_ssl_rewards"} :
         \E i \in 1..Len(hist.recorded) : hist.recorded[i] = k
  /\ hist.cycles_ok > 0 =>
       hist.cycle_recorded = <<"ssl/f1_score", "buffer/num_ssl_rewards">>

\* C16, amended: a collection step that stores its transition records the size
\* of the labeled store, and the size of the unlabeled store in pseudo mode with
\* p < 1 only; it never records the size of the pseudo store.  A cycle that runs
\* to its end records the metric and then the size of the pseudo store.
C16_TelemetryAsRecorded ==
  /\ hist.stored > 0 => logger.num_labeled_rewards = Size(replay_buffer)
  /\ (hist.stored > 0 /\ cfg.pseudo_mode /\ cfg.p < 2) =>
       logger.num_unlabeled_rewards = Size(unlabeled_replay_buffer)
  /\ ~(cfg.pseudo_mode /\ cfg.p < 2) => logger.num_unlabeled_rewards = -1
  /\ \A i \in 1..Len(hist.recorded) : hist.recorded[i] # "buffer/num_ssl_rewards"
  /\ ~rollout.continue_training => hist.recorded = <<>>
  /\ hist.cycles_ok = 0 =>
       /\ logger.num_ssl_rewards = -1
       /\ logger.f1_score = <<-1, -1>>
  /\ JustRefreshed =>
       LET U == GetAll(unlabeled_replay_buffer)
           L == GetAll(replay_buffer)
       IN /\ hist.cycle_recorded = <<"ssl/f1_score", "buffer/num_ssl_rewards">>
          /\ logger.f1_score = f1_score(f1_pseudo(L, pred_labels), f1_true(U, L))
          /\ logger.num_ssl_rewards = Size(ssl_replay_buffer)

C16_Witness ==
  /\ JustRefreshed
  /\ hist.stored > 1
  /\ Size(unlabeled_replay_buffer) > 0
  /\ logger.num_unlabeled_rewards = Size(unlabeled_replay_buffer)
  /\ hist.recorded = <<"buffer/num_labeled_rewards", "buffer/num_unlabeled_rewards">>

\* C17: a store never holds more than its capacity, its position stays inside
\* the ring, and the labeled store, read from its oldest row on, holds the most
\* recent capacity rows added to it (the rows it was loaded with first) in the
\* order they were added; with p = 1.0 every routed transition is one of these
\* rows.
C17_RingHoldsMostRecent ==
  /\ \A b \in {replay_buffer, unlabeled_replay_buffer, ssl_replay_buffer} :
       ~b.none => /\ Size(b) <= b.capacity
                  /\ 0 <= b.pos
                  /\ b.pos < b.capacity
                  /\ b.full => Len(b.data) = b.capacity
  /\ LET b == replay_buffer
         n == Len(hist.labeled_log)
         k == IF n < b.capacity THEN n ELSE b.capacity
         ring == IF b.full
                 THEN SubSeq(b.data, b.pos + 1, b.capacity) \o SubSeq(b.data, 1, b.pos)
                 ELSE SubSeq(b.data, 1, b.pos)
     IN /\ Size(b) = k
        /\ ring = SubSeq(hist.labeled_log, n - k + 1, n)
        /\ b.pos = n % b.capacity
  /\ cfg.p >= 2 => Len(hist.labeled_log) = Len(hist.loaded) + hist.stored

C17_Witness ==
  /\ cfg.p = 2
  /\ hist.loaded = <<>>
  /\ replay_buffer.capacity = RingCapacity
  /\ hist.stored = RingAdds
  /\ Size(replay_buffer) = RingCapacity
  /\ GetAll(replay_buffer) =
       SubSeq(hist.labeled_log, RingAdds - 1, RingAdds)
       \o SubSeq(hist.labeled_log, RingAdds - 3, RingAdds - 2)

\* C18: in a cycle, the node named by the seed index at position j is the
\* state-action vector of the j-th unique labeled transition, the one whose
\* reward gave the train label at position j.
C18_SeedsAreLabeledNodes ==
  (pc = "refresh" \/ JustRefreshed) =>
    LET U == GetAll(unlabeled_replay_buffer)
        L == GetAll(replay_buffer)
        ti == train_ind(L)
        nodes == X_prime_unique(U, L)
    IN /\ Len(train_labels(L)) = Len(ti)
       /\ \A j \in 1..Len(ti) :
            /\ ti[j] <= Len(nodes)
            /\ nodes[ti[j]] = unique_labeled_sa(L)[j]

\* C19: the pseudo store is reset or written only by a cycle, and a cycle runs
\* only after a check at which pseudo mode is on, num_timesteps is a multiple of
\* ssl_freq and num_timesteps > learning_starts // 2.
C19_CycleOnlyWhenDue ==
  /\ [](pc = "refresh" =>
          /\ cfg.pseudo_mode
          /\ cfg.ssl_freq # 0
          /\ num_timesteps % cfg.ssl_freq = 0
          /\ num_timesteps > cfg.learning_starts \div 2
          /\ hist.phases = <<"collect", "reset">>)
  /\ [][(\/ ssl_replay_buffer' # ssl_replay_buffer
         \/ (pc' = "refresh" /\ pc # "refresh")) =>
          /\ pc \in {"ssl_check", "refresh"}
          /\ cfg.pseudo_mode
          /\ cfg.ssl_freq # 0
          /\ num_timesteps % cfg.ssl_freq = 0
          /\ num_timesteps > cfg.learning_starts \div 2]_vars

C19_Witness ==
  /\ pc = "refresh"
  /\ Size(hist.ssl_before) > 0
  /\ cfg.ssl_freq = 1
  /\ 1 \in hist.checked_at
  /\ 1 \notin hist.ssl_at

\* C20, as stated: predict is never called while num_timesteps < learning_starts.
C20_WarmupNeverPredicts == hist.warmup_predicts = 0

\* C20, amended: while num_timesteps < learning_starts the action comes from
\* action_space.sample(), unless use_sde and use_sde_at_warmup are both set:
\* then every action comes from predict.  From learning_starts on every action
\* comes from predict.
C20_WarmupSamplesUnlessSde ==
  /\ ~(cfg.use_sde /\ cfg.use_sde_at_warmup) => hist.warmup_predicts = 0
  /\ (cfg.use_sde /\ cfg.use_sde_at_warmup) =>
       hist.warmup_predicts = hist.warmup_steps
  /\ hist.late_samples = 0
  /\ hist.warmup_steps <= hist.env_steps

C20_Witness ==
  /\ cfg.use_sde
  /\ ~cfg.use_sde_at_warmup
  /\ hist.warmup_steps = cfg.learning_starts
  /\ hist.env_steps > hist.warmup_steps
  /\ hist.warmup_predicts = 0

\* C21: each of the three deduplication passes of a cycle keeps, for every
\* distinct feature vector of its input, the first occurrence and nothing else,
\* in input order, and the reward kept beside a surviving vector is the reward
\* of that first occurrence.
C21_DedupKeepsFirstOccurrence ==
  (pc = "refresh" \/ JustRefreshed) =>
    LET U == GetAll(unlabeled_replay_buffer)
        L == GetAll(replay_buffer)
        FirstOcc(s, ind) ==
          /\ \A k \in 1..Len(ind) :
               /\ ind[k] \in 1..Len(s)
               /\ \A j \in 1..(ind[k] - 1) : s[j] # s[ind[k]]
               /\ k > 1 => ind[k - 1] < ind[k]
          /\ \A i \in 1..Len(s) : \E k \in 1..Len(ind) : s[ind[k]] = s[i]
        Kept(s, ind, out) ==
          /\ Len(out) = Len(ind)
          /\ \A k \in 1..Len(ind) : out[k] = s[ind[k]]
        X == X_prime(U, L)
        R == unique_unlabeled_rewards(U) \o unique_labeled_rewards(L)
        ci == concatenated_unique_ind(U, L)
    IN /\ FirstOcc(StateActions(U), unique_unlabeled_ind(U))
       /\ Kept(StateActions(U), unique_unlabeled_ind(U), unique_unlabeled_sa(U))
       /\ Kept(RewardsOf(U), unique_unlabeled_ind(U), unique_unlabeled_rewards(U))
       /\ FirstOcc(StateActions(L), unique_labeled_ind(L))
       /\ Kept(StateActions(L), unique_labeled_ind(L), unique_labeled_sa(L))
       /\ Kept(RewardsOf(L), unique_labeled_ind(L), unique_labeled_rewards(L))
       /\ FirstOcc(X, ci)
       /\ Kept(X, ci, X_prime_unique(U, L))
       /\ Kept(AsIntSeq(R), ci, true_rewards(U, L))

\* C22: the pseudo-rewards a cycle writes are the predicted labels of that cycle
\* mapped through the reward-label mapping built from the labeled store as it is
\* in that cycle, whatever mapping the cycle before had built.
C22_MappingIsFresh ==
  JustRefreshed =>
    LET U == GetAll(unlabeled_replay_buffer)
        L == GetAll(replay_buffer)
        P == GetAll(ssl_replay_buffer)
        rs == AsIntSeq(unique_labeled_rewards(L))
        fresh == [l \in 1..Cardinality(RewardAlphabet(rs)) |->
                    CHOOSE r \in RewardAlphabet(rs) :
                      Cardinality({v \in RewardAlphabet(rs) : v < r}) = l - 1]
        written == Delete(pred_labels, train_ind(L))
    IN /\ hist.l2r_used = fresh
       /\ \A i \in 1..Len(rs) : fresh[train_labels(L)[i] + 1] = rs[i]
       /\ \A i \in 1..Len(P) : P[i].pseudo_reward = fresh[written[i] + 1]

C22_Witness ==
  /\ JustRefreshed
  /\ hist.l2r_prev # <<>>
  /\ hist.l2r_prev # hist.l2r_used
  /\ Size(ssl_replay_buffer) > 0
  /\ \E i \in 1..Size(ssl_replay_buffer) :
       LET l == Delete(pred_labels, train_ind(GetAll(replay_buffer)))[i] + 1
       IN l > Len(hist.l2r_prev) \/ hist.l2r_prev[l] # hist.l2r_used[l]

\* C23: an iteration calls train at most once; the call just made had
\* gradient_steps > 0, equal to the configured value when that is not negative
\* and to the timesteps of the rollout just collected when it is, and carried
\* batch_size and ssl_batch_size; with a configured 0 train is never called.
C23_TrainCallArguments ==
  /\ Cardinality({i \in 1..Len(hist.phases) : hist.phases[i] = "train"}) <= 1
  /\ cfg.gradient_steps = 0 => hist.trains = 0
  /\ (hist.phases # <<>> /\ hist.phases[Len(hist.phases)] = "train") =>
       /\ hist.train_args.gradient_steps > 0
       /\ cfg.gradient_steps >= 0 =>
            hist.train_args.gradient_steps = cfg.gradient_steps
       /\ cfg.gradient_steps < 0 =>
            hist.train_args.gradient_steps =
              rollout.num_collected_steps * env.num_envs
       /\ hist.train_args.batch_size = cfg.batch_size
       /\ hist.train_args.ssl_batch_size = cfg.ssl_batch_size
       /\ DOMAIN hist.train_args = {"batch_size", "ssl_batch_size", "gradient_steps"}

C23_Witness ==
  /\ hist.phases # <<>>
  /\ hist.phases[Len(hist.phases)] = "train"
  /\ cfg.gradient_steps < 0
  /\ env.num_envs = 2
  /\ hist.train_args.gradient_steps = 4

\* C24: a call of _store_transition hands the whole batch of one vectorized step,
\* the transitions of all environments, to one store or to none, on one draw;
\* with p = 1.0 that store is always the labeled one and the unlabeled store
\* stays empty, with p = 0 the labeled store holds what it was loaded with and
\* nothing else.
C24_OneDrawPerStep ==
  /\ [][hist'.stored = hist.stored + 1 =>
          LET labGot == IF replay_buffer' # replay_buffer
                        THEN replay_buffer'.data[replay_buffer.pos + 1].n_envs
                        ELSE 0
              unlGot == IF unlabeled_replay_buffer' # unlabeled_replay_buffer
                        THEN unlabeled_replay_buffer'
                               .data[unlabeled_replay_buffer.pos + 1].n_envs
                        ELSE 0
          IN /\ labGot + unlGot \in {0, env.num_envs}
             /\ labGot = 0 \/ unlGot = 0
             /\ cfg.p = 2 => (labGot = env.num_envs /\ unlGot = 0)
             /\ cfg.p = 0 => labGot = 0]_vars
  /\ [](cfg.p = 2 => Size(unlabeled_replay_buffer) = 0)
  /\ [](cfg.p = 0 => GetAll(replay_buffer) = hist.loaded)

C24_Witness ==
  /\ env.num_envs = 2
  /\ cfg.p = 1
  /\ hist.stored = 2
  /\ Size(replay_buffer) = 1
  /\ Size(unlabeled_replay_buffer) = 1
  /\ replay_buffer.data[1].n_envs = 2
  /\ unlabeled_replay_buffer.data[1].n_envs = 2

\* C25: in a run with pseudo_mode = false no step reads the pseudo store, which
\* does not exist: learn never ends with the AttributeError of such a read.
C25_NoPseudoStoreReadWhenOff ==
  ~cfg.pseudo_mode => ~(pc = "error" /\ raised = "AttributeError")

\* C26: from the check that starts a cycle to the cycle's end, the labeled store,
\* the unlabeled store and num_timesteps stay as they were; the pseudo store is
\* the only store a step of the cycle changes.
C26_CycleChangesPseudoStoreOnly ==
  /\ [][(pc = "ssl_check" \/ pc = "refresh") =>
          (replay_buffer' = replay_buffer
           /\ unlabeled_replay_buffer' = unlabeled_replay_buffer
           /\ num_timesteps' = num_timesteps)]_vars
  /\ []((JustRefreshed \/ (pc = "error" /\ raised \in CycleErrors)) =>
          /\ replay_buffer = hist.labeled_before
          /\ unlabeled_replay_buffer = hist.unlabeled_before
          /\ num_timesteps = hist.steps_before)

C26_Witness ==
  /\ JustRefreshed
  /\ ssl_replay_buffer # hist.ssl_before
  /\ Size(ssl_replay_buffer) > 0
  /\ replay_buffer.full
  /\ Size(unlabeled_replay_buffer) > 0

\* C27: num_timesteps is the number of environment steps times env.num_envs, and
\* a learn that returned without a stop signal under a step-unit train_freq
\* left total_timesteps <= num_timesteps < total_timesteps + frequency * num_envs.
C27_StepCountBounds ==
  /\ num_timesteps = hist.env_steps * env.num_envs
  /\ (/\ pc = "done"
      /\ rollout.continue_training
      /\ cfg.train_freq.unit = "step") =>
       /\ cfg.total_timesteps <= num_timesteps
       /\ num_timesteps <
            cfg.total_timesteps + cfg.train_freq.frequency * env.num_envs

C27_Witness ==
  /\ pc = "done"
  /\ rollout.continue_training
  /\ cfg.train_freq.unit = "step"
  /\ env.num_envs = 2
  /\ cfg.train_freq.frequency = 2
  /\ num_timesteps > cfg.total_timesteps

\* C28: the pseudo-rewards a cycle has written are integer-cast rewards of the
\* unique labeled transitions of that cycle, and the pseudo store never holds
\* more entries than the unlabeled store.
C28_PseudoRewardAlphabet ==
  /\ ~ssl_replay_buffer.none =>
       Size(ssl_replay_buffer) <= Size(unlabeled_replay_buffer)
  /\ JustRefreshed =>
       LET L == GetAll(replay_buffer)
           P == GetAll(ssl_replay_buffer)
           labeled_ints == {AsInt(unique_labeled_rewards(L)[j]) :
                              j \in 1..Len(unique_labeled_rewards(L))}
       IN \A i \in 1..Len(P) : P[i].pseudo_reward \in labeled_ints

C28_Witness ==
  /\ JustRefreshed
  /\ Size(ssl_replay_buffer) = 1
  /\ Size(unlabeled_replay_buffer) = 2
  /\ GetAll(ssl_replay_buffer)[1].pseudo_reward = 1
  /\ \A j \in 1..Size(replay_buffer) : AsInt(GetAll(replay_buffer)[j].reward) = 1

\* C29: on_training_start has been called once from the start of the loop on;
\* on_training_end has been called once when learn has returned, after a stop
\* signal too, and not before; on_rollout_end has been called once for every
\* rollout that ran to its end, and on_rollout_start once more than that while
\* a rollout is running or after one was cut short.
C29_CallbackProtocol ==
  /\ hist.cb.on_training_start = IF pc = "setup" THEN 0 ELSE 1
  /\ hist.cb.on_training_end = IF pc = "done" THEN 1 ELSE 0
  /\ hist.cb.on_rollout_end = Cardinality(hist.checked_at)
  /\ hist.cb.on_rollout_start =
       hist.cb.on_rollout_end
       + (IF \/ pc = "collect"
             \/ ~rollout.continue_training
             \/ (pc = "error" /\ raised = "AttributeError")
          THEN 1 ELSE 0)

C29_Witness ==
  /\ pc = "done"
  /\ ~rollout.continue_training
  /\ hist.cb.on_rollout_start = 2
  /\ hist.cb.on_rollout_end = 1
  /\ hist.cb.on_training_end = 1

====
